---------------------------- MODULE Spec2Model ----------------------------
(***************************************************************************)
(* A model of py2mermaid_v2: the flowchart graph (Node, Graph), the         *)
(* statement-to-subgraph Builder, the Mermaid serializer's edge lines and   *)
(* label escaping, the project scanner and the command-line driver.         *)
(*                                                                          *)
(* Python object references to Node are modelled as positions in            *)
(* Graph.nodes (1-based here, so the node with id "n<i>" is at position     *)
(* i+1).  Strings are TLA+ strings, except the labels handed to             *)
(* _esc_mermaid_label, which are sequences of one-character strings so      *)
(* that the substitutions can be computed character by character.           *)
(***************************************************************************)
EXTENDS Integers, Sequences, FiniteSets, TLC

VARIABLES
    pc,          \* position of the modelled run
    g,           \* the Graph under construction (Builder.g)
    nlinks,      \* number of Graph.link calls performed (API runs)
    input,       \* the scope handed to the Builder
    pos,         \* number of top-level statements already synthesized
    last,        \* the tail threaded through _build_block
    text,        \* the label handed to _esc_mermaid_label
    escaped,     \* its result
    walk,        \* the directories under the root, in os.walk's top-down order
    ignore,      \* the --ignore tokens
    format,      \* the --format argument
    max_files,   \* the --max-files argument
    files,       \* result of scan_py_files
    idx,         \* loop position of main's build loop
    charts,      \* main's charts_by_file
    skips,       \* files for which a [skip] message was printed
    out          \* what the output-writing step produced

vars == <<pc, g, nlinks, input, pos, last, text, escaped,
          walk, ignore, format, max_files, files, idx, charts, skips, out>>

graphVars == <<g, nlinks>>
buildVars == <<input, pos, last>>
escVars   == <<text, escaped>>
mainVars  == <<walk, ignore, format, max_files, files, idx, charts, skips, out>>

(***************************************************************************)
(* Bounds of the model.                                                     *)
(***************************************************************************)
MaxNodes == 3       \* nodes of a graph in the runs over the Graph API
MaxLinks == 3       \* link calls in the runs over the Graph API
MaxSize == 4        \* statements of a scope handed to the Builder
MaxLabelLen == 4    \* characters of a label handed to _esc_mermaid_label
MaxDirs == 2        \* directories under the scanned root, the root included
MaxFuncs == 2       \* top-level functions of a scanned file
MaxFilesArg == 2    \* largest --max-files argument

None == "None"

Range(s) == { s[i] : i \in 1..Len(s) }

\* The parts of the state a run does not use stay at these values.
IdleGraph == g = None /\ nlinks = 0
IdleBuild == input = None /\ pos = 0 /\ last = 0
IdleEsc   == text = <<>> /\ escaped = <<>>
IdleMain  ==
    /\ walk = <<>> /\ ignore = <<>> /\ format = None
    /\ max_files = 0 /\ files = <<>> /\ idx = 0
    /\ charts = <<>> /\ skips = {} /\ out = None

(***************************************************************************)
(* f"{n}" for a non-negative integer.                                       *)
(***************************************************************************)
Digit(d) ==
    CASE d = 0 -> "0" [] d = 1 -> "1" [] d = 2 -> "2" [] d = 3 -> "3"
      [] d = 4 -> "4" [] d = 5 -> "5" [] d = 6 -> "6" [] d = 7 -> "7"
      [] d = 8 -> "8" [] d = 9 -> "9"

RECURSIVE IntStr(_)
IntStr(n) == IF n < 10 THEN Digit(n) ELSE IntStr(n \div 10) \o Digit(n % 10)

(***************************************************************************)
(* Node and Graph.                                                          *)
(***************************************************************************)
Node(kind, label) == [kind |-> kind, label |-> label, id |-> None, nexts |-> <<>>]

\* An add that numbers nodes by Graph._counter, which is never advanced.
AddByCounter(gr, kind, label) ==
    [gr EXCEPT !.nodes = Append(@, [Node(kind, label) EXCEPT !.id = "n" \o IntStr(0)])]

\* Graph.add: the new node takes the id "n<len(nodes)>" and is appended.
Add(gr, kind, label) ==
    [gr EXCEPT !.nodes =
        Append(@, [Node(kind, label) EXCEPT !.id = "n" \o IntStr(Len(gr.nodes))])]

\* The node Graph.add returns: the one just appended.
Added(gr) == Len(gr.nodes)

\* A link that appends without looking at the successor list.
LinkAlways(gr, a, b) == [gr EXCEPT !.nodes[a].nexts = Append(@, b)]

\* Graph.link: append b to a.nexts unless it is already there.
Link(gr, a, b) ==
    IF b \notin Range(gr.nodes[a].nexts)
    THEN [gr EXCEPT !.nodes[a].nexts = Append(@, b)]
    ELSE gr

\* Graph.__init__: Start is created first, End second.
NewGraph(title) ==
    Add(Add([title |-> title, nodes |-> <<>>], "start", "Start: " \o title), "end", "End")

StartNode == 1      \* Graph.start
EndNode == 2        \* Graph.end

Nexts(gr, n) == Range(gr.nodes[n].nexts)
NodeIds(gr) == 1..Len(gr.nodes)


(***************************************************************************)
(* Graph.to_mermaid, the edge lines: one line per (node, successor) pair,   *)
(* in node order and, within a node, in successor order.                    *)
(***************************************************************************)
\* A labelling that ignores the kind of the source node.
EdgeLabelAnyKind(kind, i) == IF i = 0 THEN "True" ELSE IF i = 1 THEN "False" ELSE ""

\* The label of the edge at index i (0-based, enumerate) of a node of this kind.
EdgeLabel(kind, i) ==
    IF kind = "cond"
    THEN (IF i = 0 THEN "True" ELSE (IF i = 1 THEN "False" ELSE ""))
    ELSE ""

\* The line emitted for the i-th (0-based) successor of node n.
EdgeLine(gr, n, i) ==
    LET label == EdgeLabel(gr.nodes[n].kind, i)
        m == gr.nodes[n].nexts[i + 1]
    IN  IF label # ""
        THEN "    " \o gr.nodes[n].id \o " -->|" \o label \o "| " \o gr.nodes[m].id
        ELSE "    " \o gr.nodes[n].id \o " --> " \o gr.nodes[m].id

\* The lines of one node's successors, in order.
NodeEdgeLines(gr, n) ==
    [k \in 1..Len(gr.nodes[n].nexts) |-> EdgeLine(gr, n, k - 1)]

RECURSIVE EdgeLinesFrom(_, _)
EdgeLinesFrom(gr, n) ==
    IF n > Len(gr.nodes) THEN <<>>
    ELSE NodeEdgeLines(gr, n) \o EdgeLinesFrom(gr, n + 1)

\* All edge lines of to_mermaid, in the order it appends them.
EdgeLines(gr) == EdgeLinesFrom(gr, 1)

(***************************************************************************)
(* Graph._esc_mermaid_label.  A label is a sequence of characters, each a   *)
(* one-character string, except the backtick, which a TLA+ string cannot    *)
(* hold and which is written BACKTICK.                                      *)
(***************************************************************************)
BACKSLASH == "\\"
QUOTE == "\""
CR == "\r"
LF == "\n"
BACKTICK == "backtick"    \* stands for the one character U+0060

\* str.replace(old, new): every non-overlapping occurrence, leftmost first.
RECURSIVE Replace(_, _, _)
Replace(t, old, new) ==
    IF Len(t) < Len(old) THEN t
    ELSE IF SubSeq(t, 1, Len(old)) = old
         THEN new \o Replace(SubSeq(t, Len(old) + 1, Len(t)), old, new)
         ELSE <<Head(t)>> \o Replace(Tail(t), old, new)

\* An escaping that leaves backslashes as they are.
EscKeepBackslash(t) ==
    LET t2 == Replace(t, <<QUOTE>>, <<BACKSLASH, QUOTE>>)
        t3 == Replace(Replace(t2, <<CR, LF>>, <<LF>>), <<CR>>, <<LF>>)
        t4 == Replace(t3, <<LF>>, <<BACKSLASH, "n">>)
        t5 == Replace(Replace(t4, <<"<">>, <<"&", "l", "t", ";">>),
                      <<">">>, <<"&", "g", "t", ";">>)
    IN  Replace(t5, <<BACKTICK>>, <<BACKSLASH, BACKTICK>>)

\* _esc_mermaid_label (lines 78-90), the substitutions in the order of the code.
Esc(t) ==
    LET t1 == Replace(t, <<BACKSLASH>>, <<BACKSLASH, BACKSLASH>>)
        t2 == Replace(t1, <<QUOTE>>, <<BACKSLASH, QUOTE>>)
        t3 == Replace(Replace(t2, <<CR, LF>>, <<LF>>), <<CR>>, <<LF>>)
        t4 == Replace(t3, <<LF>>, <<BACKSLASH, "n">>)
        t5 == Replace(Replace(t4, <<"<">>, <<"&", "l", "t", ";">>),
                      <<">">>, <<"&", "g", "t", ";">>)
    IN  Replace(t5, <<BACKTICK>>, <<BACKSLASH, BACKTICK>>)

\* The characters labels are drawn from.
Alphabet == {BACKSLASH, QUOTE, CR, LF, "<", ">", BACKTICK, "&", "n", "l", "g", "t", ";"}

Labels == UNION { [1..k -> Alphabet] : k \in 0..MaxLabelLen }

InitEsc ==
    /\ pc = "label"
    /\ text \in Labels
    /\ escaped = <<>>
    /\ IdleGraph /\ IdleBuild /\ IdleMain

\* text = Graph._esc_mermaid_label(n.label)
Escape ==
    /\ pc = "label"
    /\ escaped' = Esc(text)
    /\ pc' = "escaped"
    /\ UNCHANGED <<text, graphVars, buildVars, mainVars>>

NextEsc == Escape

SpecEsc == InitEsc /\ [][NextEsc]_vars

(***************************************************************************)
(* Builder: statement-to-subgraph synthesis.                                *)
(*                                                                          *)
(* A statement is a record with kind (the name of its ast class) and the    *)
(* fields of that class that the Builder reads:                             *)
(*   If, While                 text, body, orelse                           *)
(*   For, AsyncFor             target, text, body, orelse                   *)
(*   With, AsyncWith           items, body                                  *)
(*   Try                       body, handlers, orelse, finalbody            *)
(*   Match                     text, cases                                  *)
(*   FunctionDef, AsyncFunctionDef, ClassDef      name                      *)
(*   Return, Raise, Expr       text                                         *)
(*   Assign, AnnAssign, AugAssign, Import, ImportFrom      text             *)
(*   any other class           no further field                             *)
(* A handler is [type, body]; a case is [pattern, guard, body].  The field  *)
(* text holds the ast node the label is made from: the expression test,     *)
(* iter, value, exc or subject; for Expr its value; for Assign, AnnAssign,  *)
(* AugAssign, Import and ImportFrom the statement itself.  The field items  *)
(* holds the context expressions of a with.                                 *)
(* An ast node handed to ast.unparse (text, target, items, type, pattern,   *)
(* guard) is [cls, ok, text]: the name of its class, whether ast.unparse    *)
(* returns for it (it raises RecursionError on a deeply nested node), and   *)
(* the stripped text it returns; NoExpr where the ast field is None.        *)
(* Every synthesis operator returns [g, tail]: the grown graph and the node *)
(* the Python method returns.                                               *)
(***************************************************************************)
Result(gr, tail) == [g |-> gr, tail |-> tail]

\* Builder._op / Builder._cond
Op(gr, label) == Add(gr, "op", label)
Cond(gr, label) == Add(gr, "cond", label)

\* for e in exits: self.g.link(e, target)
RECURSIVE LinkAll(_, _, _)
LinkAll(gr, exits, target) ==
    IF exits = <<>> THEN gr
    ELSE LinkAll(Link(gr, Head(exits), target), Tail(exits), target)

\* An expression field that holds None: ast.unparse(None) raises.  The
\* expression None is the Constant with the text "None".
NoExpr == [cls |-> "NoneType", ok |-> FALSE, text |-> ""]

\* An ast node with the text ast.unparse returns for it.
Rendered(cls, src) == [cls |-> cls, ok |-> TRUE, text |-> src]

\* An ast node nested so deeply that ast.unparse raises RecursionError.
Deep(cls) == [cls |-> cls, ok |-> FALSE, text |-> ""]

\* Builder._label_expr (lines 152-160): "" for None, the text ast.unparse
\* returns, or the name of the class when ast.unparse raises.
LabelExpr(e) == IF e = NoExpr THEN "" ELSE IF e.ok THEN e.text ELSE e.cls

\* "; ".join(labels)
RECURSIVE JoinSemi(_)
JoinSemi(labels) ==
    IF labels = <<>> THEN ""
    ELSE IF Len(labels) = 1 THEN labels[1]
    ELSE labels[1] \o "; " \o JoinSemi(Tail(labels))

\* The header label of a with (lines 218-219, 225-226).
WithLabel(s) ==
    (IF s.kind = "AsyncWith" THEN "async with " ELSE "with ") \o
    JoinSemi([k \in 1..Len(s.items) |-> LabelExpr(s.items[k])])

\* f"except {self._label_expr(h.type) or ''}".strip()
HandlerLabel(h) == IF LabelExpr(h.type) = "" THEN "except" ELSE "except " \o LabelExpr(h.type)

\* The label of a case branch (lines 303-307).
CaseLabel(c) ==
    IF c.guard # NoExpr
    THEN "case " \o LabelExpr(c.pattern) \o " if " \o LabelExpr(c.guard)
    ELSE "case " \o LabelExpr(c.pattern)

LoopKinds == {"For", "AsyncFor", "While"}
WithKinds == {"With", "AsyncWith"}
DefKinds  == {"FunctionDef", "AsyncFunctionDef"}

\* The header label of a loop (lines 189, 199, 208).
LoopLabel(s) ==
    CASE s.kind = "For" -> "for " \o LabelExpr(s.target) \o " in " \o LabelExpr(s.text)
      [] s.kind = "AsyncFor" ->
            "async for " \o LabelExpr(s.target) \o " in " \o LabelExpr(s.text)
      [] s.kind = "While" -> "while " \o LabelExpr(s.text)

\* The label of the node that follows a loop (lines 193, 203, 212).
AfterLoopLabel(s) ==
    CASE s.kind = "For" -> "after for"
      [] s.kind = "AsyncFor" -> "after async for"
      [] s.kind = "While" -> "after while"

RECURSIVE BuildBlock(_, _, _), BuildStmt(_, _, _)
RECURSIVE BuildHandlers(_, _, _, _), BuildCases(_, _, _, _)

\* Builder._build_block: thread the tail through the statements in order.
BuildBlock(gr, stmts, tail) ==
    IF stmts = <<>> THEN Result(gr, tail)
    ELSE LET r == BuildStmt(gr, Head(stmts), tail)
         IN  BuildBlock(r.g, Tail(stmts), r.tail)

\* A handler loop that does not link the handler node from the "try" node.
BuildHandlersUnlinked(gr, hdr, handlers, exits) ==
    IF handlers = <<>> THEN [g |-> gr, exits |-> exits]
    ELSE LET h == Head(handlers)
             g1 == Op(gr, HandlerLabel(h))
             hnode == Added(g1)
             r == BuildBlock(g1, h.body, hnode)
         IN  BuildHandlers(r.g, hdr, Tail(handlers), Append(exits, r.tail))

\* The handler loop of a try (lines 236-240): returns [g, exits].
BuildHandlers(gr, hdr, handlers, exits) ==
    IF handlers = <<>> THEN [g |-> gr, exits |-> exits]
    ELSE LET h == Head(handlers)
             g1 == Op(gr, HandlerLabel(h))
             hnode == Added(g1)
             g2 == Link(g1, hdr, hnode)
             r == BuildBlock(g2, h.body, hnode)
         IN  BuildHandlers(r.g, hdr, Tail(handlers), Append(exits, r.tail))

\* The case loop of a match (lines 302-310): returns [g, exits].
BuildCases(gr, head, cases, exits) ==
    IF cases = <<>> THEN [g |-> gr, exits |-> exits]
    ELSE LET c == Head(cases)
             g1 == Op(gr, CaseLabel(c))
             branch == Added(g1)
             g2 == Link(g1, head, branch)
             r == BuildBlock(g2, c.body, branch)
         IN  BuildCases(r.g, head, Tail(cases), Append(exits, r.tail))

\* An if without else whose condition node is not linked to the merge node.
BuildIfNoFallThrough(gr, s, tail) ==
    LET g1 == Cond(gr, "if " \o LabelExpr(s.text))
        cond == Added(g1)
        g2 == Link(g1, tail, cond)
        t == BuildBlock(g2, s.body, cond)
    IN  IF s.orelse # <<>>
        THEN LET f == BuildBlock(t.g, s.orelse, cond)
                 g3 == Op(f.g, "merge")
                 merge == Added(g3)
             IN  Result(Link(Link(g3, t.tail, merge), f.tail, merge), merge)
        ELSE LET g3 == Op(t.g, "merge")
                 merge == Added(g3)
             IN  Result(Link(g3, t.tail, merge), merge)

\* ast.If (lines 171-185)
BuildIf(gr, s, tail) ==
    LET g1 == Cond(gr, "if " \o LabelExpr(s.text))
        cond == Added(g1)
        g2 == Link(g1, tail, cond)
        t == BuildBlock(g2, s.body, cond)
    IN  IF s.orelse # <<>>
        THEN LET f == BuildBlock(t.g, s.orelse, cond)
                 g3 == Op(f.g, "merge")
                 merge == Added(g3)
             IN  Result(Link(Link(g3, t.tail, merge), f.tail, merge), merge)
        ELSE LET g3 == Op(t.g, "merge")
                 merge == Added(g3)
             IN  Result(Link(Link(g3, t.tail, merge), cond, merge), merge)

\* A loop whose body tail is not linked back to the header.
BuildLoopNoBackEdge(gr, s, tail) ==
    LET g1 == Cond(gr, LoopLabel(s))
        hdr == Added(g1)
        g2 == Link(g1, tail, hdr)
        b == BuildBlock(g2, s.body, hdr)
        g4 == Op(b.g, AfterLoopLabel(s))
        merge == Added(g4)
    IN  Result(Link(g4, hdr, merge), merge)

\* A loop that synthesizes its else clause from the after-loop node.
BuildLoopWithElse(gr, s, tail) ==
    LET g1 == Cond(gr, LoopLabel(s))
        hdr == Added(g1)
        g2 == Link(g1, tail, hdr)
        b == BuildBlock(g2, s.body, hdr)
        g3 == Link(b.g, b.tail, hdr)
        g4 == Op(g3, AfterLoopLabel(s))
        merge == Added(g4)
    IN  BuildBlock(Link(g4, hdr, merge), s.orelse, merge)

\* A loop whose after-loop node is linked from the body's tail, not the header.
BuildLoopExitFromBody(gr, s, tail) ==
    LET g1 == Cond(gr, LoopLabel(s))
        hdr == Added(g1)
        g2 == Link(g1, tail, hdr)
        b == BuildBlock(g2, s.body, hdr)
        g3 == Link(b.g, b.tail, hdr)
        g4 == Op(g3, AfterLoopLabel(s))
        merge == Added(g4)
    IN  Result(Link(g4, b.tail, merge), merge)

\* A loop that draws no back-edge from a body tail that already leads to End.
BuildLoopPruned(gr, s, tail) ==
    LET g1 == Cond(gr, LoopLabel(s))
        hdr == Added(g1)
        g2 == Link(g1, tail, hdr)
        b == BuildBlock(g2, s.body, hdr)
        g3 == IF EndNode \in Nexts(b.g, b.tail) THEN b.g ELSE Link(b.g, b.tail, hdr)
        g4 == Op(g3, AfterLoopLabel(s))
        merge == Added(g4)
    IN  Result(Link(g4, hdr, merge), merge)

\* ast.For, ast.AsyncFor, ast.While (lines 188-214); s.orelse is not read.
BuildLoop(gr, s, tail) ==
    LET g1 == Cond(gr, LoopLabel(s))
        hdr == Added(g1)
        g2 == Link(g1, tail, hdr)
        b == BuildBlock(g2, s.body, hdr)
        g3 == Link(b.g, b.tail, hdr)
        g4 == Op(g3, AfterLoopLabel(s))
        merge == Added(g4)
    IN  Result(Link(g4, hdr, merge), merge)

\* A with whose body is built from the incoming tail instead of its header.
BuildWithBodyFromTail(gr, s, tail) ==
    LET g1 == Op(gr, WithLabel(s))
        hdr == Added(g1)
    IN  BuildBlock(Link(g1, tail, hdr), s.body, tail)

\* ast.With, ast.AsyncWith (lines 217-228)
BuildWith(gr, s, tail) ==
    LET g1 == Op(gr, WithLabel(s))
        hdr == Added(g1)
    IN  BuildBlock(Link(g1, tail, hdr), s.body, hdr)

\* A try whose else tail is added to the exits without replacing the try tail.
TryExitsKeepTryTail(gr, s, tail) ==
    LET g1 == Op(gr, "try")
        hdr == Added(g1)
        g2 == Link(g1, tail, hdr)
        t == BuildBlock(g2, s.body, hdr)
        hs == BuildHandlers(t.g, hdr, s.handlers, <<t.tail>>)
    IN  IF s.orelse # <<>>
        THEN LET g3 == Op(hs.g, "else")
                 enode == Added(g3)
                 g4 == LinkAll(g3, <<t.tail>>, enode)
                 e == BuildBlock(g4, s.orelse, enode)
             IN  [g |-> e.g, hdr |-> hdr, exits |-> <<e.tail>> \o hs.exits]
        ELSE [g |-> hs.g, hdr |-> hdr, exits |-> hs.exits]

\* ast.Try up to the exits list (lines 232-247): the "try" node, the protected
\* body, the handlers, the else clause.  Returns [g, hdr, exits].
TryExits(gr, s, tail) ==
    LET g1 == Op(gr, "try")
        hdr == Added(g1)
        g2 == Link(g1, tail, hdr)
        t == BuildBlock(g2, s.body, hdr)
        hs == BuildHandlers(t.g, hdr, s.handlers, <<t.tail>>)
    IN  IF s.orelse # <<>>
        THEN LET g3 == Op(hs.g, "else")
                 enode == Added(g3)
                 g4 == LinkAll(g3, <<t.tail>>, enode)
                 e == BuildBlock(g4, s.orelse, enode)
             IN  [g |-> e.g, hdr |-> hdr, exits |-> <<e.tail>> \o Tail(hs.exits)]
        ELSE [g |-> hs.g, hdr |-> hdr, exits |-> hs.exits]

\* ast.Try (lines 231-258)
BuildTry(gr, s, tail) ==
    LET es == TryExits(gr, s, tail)
    IN  IF s.finalbody # <<>>
        THEN LET g5 == Op(es.g, "finally")
                 fnode == Added(g5)
             IN  BuildBlock(LinkAll(g5, es.exits, fnode), s.finalbody, fnode)
        ELSE LET g5 == Op(es.g, "after try")
                 merge == Added(g5)
             IN  Result(LinkAll(g5, es.exits, merge), merge)

\* ast.FunctionDef, ast.AsyncFunctionDef, ast.ClassDef (lines 261-272)
BuildDef(gr, s, tail) ==
    LET label == CASE s.kind = "FunctionDef" -> "def " \o s.name \o "(...)"
                   [] s.kind = "AsyncFunctionDef" -> "async def " \o s.name \o "(...)"
                   [] s.kind = "ClassDef" -> "class " \o s.name
        g1 == Op(gr, label)
    IN  Result(Link(g1, tail, Added(g1)), Added(g1))

\* A return or raise that hands End back as the tail.
BuildExitReturnsEnd(gr, s, tail) ==
    LET g1 == Op(gr, (IF s.kind = "Return" THEN "return " ELSE "raise ") \o LabelExpr(s.text))
        n == Added(g1)
    IN  Result(Link(Link(g1, tail, n), n, EndNode), EndNode)

\* A return or raise that shows no termination edge.
BuildExitNoEnd(gr, s, tail) ==
    LET g1 == Op(gr, (IF s.kind = "Return" THEN "return " ELSE "raise ") \o LabelExpr(s.text))
        n == Added(g1)
    IN  Result(Link(g1, tail, n), n)

\* ast.Return, ast.Raise (lines 275-285): linked from the tail and to End.
BuildExit(gr, s, tail) ==
    LET g1 == Op(gr, (IF s.kind = "Return" THEN "return " ELSE "raise ") \o LabelExpr(s.text))
        n == Added(g1)
    IN  Result(Link(Link(g1, tail, n), n, EndNode), n)

\* A break or continue that is also linked to End.
BuildJumpToEnd(gr, s, tail) ==
    LET g1 == Op(gr, IF s.kind = "Break" THEN "break" ELSE "continue")
        n == Added(g1)
    IN  Result(Link(Link(g1, tail, n), n, EndNode), n)

\* ast.Break, ast.Continue (lines 287-295)
BuildJump(gr, s, tail) ==
    LET g1 == Op(gr, IF s.kind = "Break" THEN "break" ELSE "continue")
        n == Added(g1)
    IN  Result(Link(g1, tail, n), n)

\* A match that links only the last case's tail into the "after match" node.
BuildMatchLastExit(gr, s, tail) ==
    LET g1 == Op(gr, "match " \o LabelExpr(s.text))
        head == Added(g1)
        g2 == Link(g1, tail, head)
        cs == BuildCases(g2, head, s.cases, <<>>)
        g3 == Op(cs.g, "after match")
        merge == Added(g3)
    IN  Result(LinkAll(g3, <<cs.exits[Len(cs.exits)]>>, merge), merge)

\* ast.Match (lines 298-314)
BuildMatch(gr, s, tail) ==
    LET g1 == Op(gr, "match " \o LabelExpr(s.text))
        head == Added(g1)
        g2 == Link(g1, tail, head)
        cs == BuildCases(g2, head, s.cases, <<>>)
        g3 == Op(cs.g, "after match")
        merge == Added(g3)
    IN  Result(LinkAll(g3, cs.exits, merge), merge)

\* The statement classes whose label is the rendering of the statement (line
\* 320) or of its value (line 322); every other class shows its name.
UnparsedKinds == {"Assign", "AnnAssign", "AugAssign", "Import", "ImportFrom"}

\* The label of a simple statement (lines 318-325): the name of the class,
\* replaced by the text of ast.unparse unless it raises.
SimpleLabel(s) ==
    IF s.kind \in UnparsedKinds \cup {"Expr"} /\ s.text.ok THEN s.text.text ELSE s.kind

\* A simple statement that hands back the tail it was given.
BuildSimpleKeepTail(gr, s, tail) ==
    LET g1 == Op(gr, SimpleLabel(s))
        n == Added(g1)
    IN  Result(Link(g1, tail, n), tail)

\* Any other statement (lines 317-328): one Operation node.
BuildSimple(gr, s, tail) ==
    LET g1 == Op(gr, SimpleLabel(s))
        n == Added(g1)
    IN  Result(Link(g1, tail, n), n)

\* Builder._build_stmt: the dispatcher.
BuildStmt(gr, s, tail) ==
    CASE s.kind = "If" -> BuildIf(gr, s, tail)
      [] s.kind \in LoopKinds -> BuildLoop(gr, s, tail)
      [] s.kind \in WithKinds -> BuildWith(gr, s, tail)
      [] s.kind = "Try" -> BuildTry(gr, s, tail)
      [] s.kind \in DefKinds \cup {"ClassDef"} -> BuildDef(gr, s, tail)
      [] s.kind \in {"Return", "Raise"} -> BuildExit(gr, s, tail)
      [] s.kind \in {"Break", "Continue"} -> BuildJump(gr, s, tail)
      [] s.kind = "Match" -> BuildMatch(gr, s, tail)
      [] OTHER -> BuildSimple(gr, s, tail)

\* The signature build_function computes: f"{name}({', '.join(params)})".
RECURSIVE JoinComma(_)
JoinComma(params) ==
    IF params = <<>> THEN ""
    ELSE IF Len(params) = 1 THEN params[1]
    ELSE params[1] \o ", " \o JoinComma(Tail(params))

Signature(func) == func.name \o "(" \o JoinComma(func.params) \o ")"

(***************************************************************************)
(* The Builder of py2mermaid.py, the first version of the tool.  Its Graph, *)
(* _build_block, return, raise, break and continue rules and its signature  *)
(* are those of py2mermaid_v2.py; it has rules for If, For, While, Try and  *)
(* FunctionDef only, its Try rule does not read s.orelse, and every other   *)
(* statement class is a simple statement, its body not entered.             *)
(***************************************************************************)
RECURSIVE BuildBlockV1(_, _, _), BuildStmtV1(_, _, _), BuildHandlersV1(_, _, _, _)

\* py2mermaid.py, Builder._label_expr (lines 113-117): the text ast.unparse
\* returns; when it raises, "" for None and else the name of the class.
LabelExprV1(e) == IF e.ok THEN e.text ELSE IF e = NoExpr THEN "" ELSE e.cls

\* py2mermaid.py, f"except {self._label_expr(h.type) or ''}" stripped (lines 169-170)
HandlerLabelV1(h) ==
    IF LabelExprV1(h.type) = "" THEN "except" ELSE "except " \o LabelExprV1(h.type)

\* py2mermaid.py, the header label of a loop (lines 146, 155)
LoopLabelV1(s) ==
    IF s.kind = "For"
    THEN "for " \o LabelExprV1(s.target) \o " in " \o LabelExprV1(s.text)
    ELSE "while " \o LabelExprV1(s.text)

\* py2mermaid.py, ast.Return and ast.Raise (lines 191-202)
BuildExitV1(gr, s, tail) ==
    LET g1 == Op(gr, (IF s.kind = "Return" THEN "return " ELSE "raise ") \o LabelExprV1(s.text))
        n == Added(g1)
    IN  Result(Link(Link(g1, tail, n), n, EndNode), n)

\* py2mermaid.py, Builder._build_block (lines 108-111)
BuildBlockV1(gr, stmts, tail) ==
    IF stmts = <<>> THEN Result(gr, tail)
    ELSE LET r == BuildStmtV1(gr, Head(stmts), tail)
         IN  BuildBlockV1(r.g, Tail(stmts), r.tail)

\* py2mermaid.py, ast.If (lines 126-143)
BuildIfV1(gr, s, tail) ==
    LET g1 == Cond(gr, "if " \o LabelExprV1(s.text))
        cond == Added(g1)
        g2 == Link(g1, tail, cond)
        t == BuildBlockV1(g2, s.body, cond)
    IN  IF s.orelse # <<>>
        THEN LET f == BuildBlockV1(t.g, s.orelse, cond)
                 g3 == Op(f.g, "merge")
                 merge == Added(g3)
             IN  Result(Link(Link(g3, t.tail, merge), f.tail, merge), merge)
        ELSE LET g3 == Op(t.g, "merge")
                 merge == Added(g3)
             IN  Result(Link(Link(g3, t.tail, merge), cond, merge), merge)

\* py2mermaid.py, ast.For and ast.While (lines 145-161)
BuildLoopV1(gr, s, tail) ==
    LET g1 == Cond(gr, LoopLabelV1(s))
        hdr == Added(g1)
        g2 == Link(g1, tail, hdr)
        b == BuildBlockV1(g2, s.body, hdr)
        g3 == Link(b.g, b.tail, hdr)
        g4 == Op(g3, AfterLoopLabel(s))
        merge == Added(g4)
    IN  Result(Link(g4, hdr, merge), merge)

\* py2mermaid.py, the handler loop of a try (lines 168-172): returns [g, exits].
BuildHandlersV1(gr, hdr, handlers, exits) ==
    IF handlers = <<>> THEN [g |-> gr, exits |-> exits]
    ELSE LET h == Head(handlers)
             g1 == Op(gr, HandlerLabelV1(h))
             hnode == Added(g1)
             g2 == Link(g1, hdr, hnode)
             r == BuildBlockV1(g2, h.body, hnode)
         IN  BuildHandlersV1(r.g, hdr, Tail(handlers), Append(exits, r.tail))

\* py2mermaid.py, ast.Try up to the exits list (lines 164-172): the "try" node,
\* the protected body, the handlers; exits[1] is try_tail.  s.orelse is not read.
TryExitsV1(gr, s, tail) ==
    LET g1 == Op(gr, "try")
        hdr == Added(g1)
        g2 == Link(g1, tail, hdr)
        t == BuildBlockV1(g2, s.body, hdr)
        hs == BuildHandlersV1(t.g, hdr, s.handlers, <<t.tail>>)
    IN  [g |-> hs.g, hdr |-> hdr, exits |-> hs.exits]

\* py2mermaid.py, ast.Try (lines 163-183)
BuildTryV1(gr, s, tail) ==
    LET es == TryExitsV1(gr, s, tail)
    IN  IF s.finalbody # <<>>
        THEN LET g5 == Op(es.g, "finally")
                 fnode == Added(g5)
             IN  BuildBlockV1(LinkAll(g5, es.exits, fnode), s.finalbody, fnode)
        ELSE LET g5 == Op(es.g, "after try")
                 merge == Added(g5)
             IN  Result(LinkAll(g5, es.exits, merge), merge)

\* py2mermaid.py, the label of a simple statement (lines 216-226).
SimpleLabelV1(s) ==
    IF s.kind \in {"Assign", "AnnAssign", "AugAssign", "Expr"} /\ s.text.ok
    THEN s.text.text ELSE s.kind

\* py2mermaid.py, any other statement (lines 214-229): one Operation node.
BuildSimpleV1(gr, s, tail) ==
    LET g1 == Op(gr, SimpleLabelV1(s))
        n == Added(g1)
    IN  Result(Link(g1, tail, n), n)

\* py2mermaid.py, Builder._build_stmt (lines 125-229)
BuildStmtV1(gr, s, tail) ==
    CASE s.kind = "If" -> BuildIfV1(gr, s, tail)
      [] s.kind \in {"For", "While"} -> BuildLoopV1(gr, s, tail)
      [] s.kind = "Try" -> BuildTryV1(gr, s, tail)
      [] s.kind = "FunctionDef" -> BuildDef(gr, s, tail)
      [] s.kind \in {"Return", "Raise"} -> BuildExitV1(gr, s, tail)
      [] s.kind \in {"Break", "Continue"} -> BuildJump(gr, s, tail)
      [] OTHER -> BuildSimpleV1(gr, s, tail)

(***************************************************************************)
(* The scopes handed to the Builder: every statement tree ast.parse can     *)
(* produce (nested bodies non-empty, a try with a handler or a finally, an  *)
(* else only after a handler, a match with at least one case) with at most  *)
(* MaxSize statements, over the statement classes of one of the Flavours.   *)
(***************************************************************************)
\* The leaf of class kind in flavour F; F.value is the value of its return and
\* the exception of its raise, F.call the value of its expression statement.
LeafStmt(F, kind) ==
    CASE kind = "Assign" -> [kind |-> kind, text |-> Rendered("Assign", "x = 1")]
      [] kind = "Expr" -> [kind |-> kind, text |-> F.call]
      [] kind \in DefKinds -> [kind |-> kind, name |-> "h"]
      [] kind = "ClassDef" -> [kind |-> kind, name |-> "K"]
      [] kind \in {"Return", "Raise"} -> [kind |-> kind, text |-> F.value]
      [] kind \in {"Break", "Continue", "Pass"} -> [kind |-> kind]

IfStmt(F, body, orelse) ==
    [kind |-> "If", text |-> F.test, body |-> body, orelse |-> orelse]

LoopStmt(F, body, orelse) ==
    IF F.loop = "While"
    THEN [kind |-> F.loop, text |-> F.test, body |-> body, orelse |-> orelse]
    ELSE [kind |-> F.loop, target |-> Rendered("Name", "i"), text |-> F.test,
          body |-> body, orelse |-> orelse]

WithStmt(F, body) == [kind |-> F.with, items |-> F.items, body |-> body]

Handlers(F, bodies) == [k \in 1..Len(bodies) |-> [type |-> F.type, body |-> bodies[k]]]

TryStmt(F, body, hbodies, orelse, finalbody) ==
    [kind |-> "Try", body |-> body, handlers |-> Handlers(F, hbodies),
     orelse |-> orelse, finalbody |-> finalbody]

Cases(F, bodies) ==
    [k \in 1..Len(bodies) |->
        [pattern |-> Rendered("MatchAs", "p"), guard |-> F.guard, body |-> bodies[k]]]

MatchStmt(F, bodies) ==
    [kind |-> "Match", text |-> F.test, cases |-> Cases(F, bodies)]

\* The statement classes a scope draws from, the expressions of its returns and
\* raises (value), handlers (type), cases (guard), tests, iterables and match
\* subjects (test), with items (items) and expression statements (call), and
\* the scope itself.  The second flavour has a bare raise, bare handlers and
\* guarded cases; the third has the expression None in all three places; in the
\* fourth ast.unparse raises on the values, tests, items and calls.
Flavours ==
    { [leaves |-> {"Assign", "Return", "Break"}, loop |-> "For", with |-> "With",
       value |-> Rendered("Name", "v"), type |-> Rendered("Name", "E"), guard |-> NoExpr,
       test |-> Rendered("Name", "c"), items |-> <<Rendered("Name", "cm")>>,
       call |-> Rendered("Call", "f()"),
       scope |-> "module", params |-> <<>>],
      [leaves |-> {"FunctionDef", "Raise", "Continue"}, loop |-> "While",
       with |-> "AsyncWith", value |-> NoExpr, type |-> NoExpr,
       guard |-> Rendered("Name", "q"),
       test |-> Rendered("Name", "c"), items |-> <<Rendered("Name", "cm")>>,
       call |-> Rendered("Call", "f()"),
       scope |-> "function", params |-> <<>>],
      [leaves |-> {"ClassDef", "Return", "Pass"}, loop |-> "AsyncFor",
       with |-> "With", value |-> Rendered("Constant", "None"),
       type |-> Rendered("Constant", "None"), guard |-> Rendered("Constant", "None"),
       test |-> Rendered("Name", "c"),
       items |-> <<Rendered("Name", "a"), Rendered("Name", "b")>>,
       call |-> Rendered("Call", "f()"),
       scope |-> "function", params |-> <<"a", "b">>],
      [leaves |-> {"Expr", "AsyncFunctionDef"}, loop |-> "For",
       with |-> "AsyncWith", value |-> Deep("BinOp"), type |-> Rendered("Name", "E"),
       guard |-> NoExpr,
       test |-> Deep("BinOp"), items |-> <<Deep("BinOp")>>, call |-> Deep("BinOp"),
       scope |-> "function", params |-> <<"a">>] }

\* A table entry for size 0: the empty block, the empty sequence of blocks.
SizedOrEmpty(table, k) == IF k = 0 THEN {<<>>} ELSE table[k]

\* The compound statements with exactly n statements (the statement itself and
\* n - 1 nested ones), given the blocks B and block sequences Q of smaller sizes.
Compounds(F, B, Q, n) ==
    LET m == n - 1
        Split == { <<a, b>> \in (1..m) \X (0..m) : a + b = m }
        IfSet == UNION { { IfStmt(F, body, orelse) :
                             body \in B[p[1]], orelse \in SizedOrEmpty(B, p[2]) } :
                         p \in Split }
        LoopSet == UNION { { LoopStmt(F, body, orelse) :
                               body \in B[p[1]], orelse \in SizedOrEmpty(B, p[2]) } :
                           p \in Split }
        WithSet == { WithStmt(F, body) : body \in B[m] }
        MatchSet == { MatchStmt(F, q) : q \in Q[m] }
        TrySplit == { <<a, h, e, f>> \in (1..m) \X (0..m) \X (0..m) \X (0..m) :
                        /\ a + h + e + f = m
                        /\ (h > 0 \/ f > 0)
                        /\ (e > 0 => h > 0) }
        TrySet == UNION { { TryStmt(F, body, hb, orelse, fin) :
                              body \in B[p[1]], hb \in SizedOrEmpty(Q, p[2]),
                              orelse \in SizedOrEmpty(B, p[3]),
                              fin \in SizedOrEmpty(B, p[4]) } :
                          p \in TrySplit }
    IN  IfSet \cup LoopSet \cup WithSet \cup MatchSet \cup TrySet

\* The value of Body(v), with v evaluated once.
Let(v, Body(_)) == CHOOSE r \in { Body(x) : x \in {v} } : TRUE

\* The non-empty blocks of exactly n statements, given the statements S of sizes
\* up to n and the blocks B of smaller sizes.
BlocksOfSize(S, B, n) ==
    UNION { { <<st>> \o b : st \in S[k], b \in SizedOrEmpty(B, n - k) } : k \in 1..n }

\* The non-empty sequences of non-empty blocks with n statements in all.
BlockSeqsOfSize(B, Q, n) ==
    UNION { { <<b>> \o q : b \in B[k], q \in SizedOrEmpty(Q, n - k) } : k \in 1..n }

\* The statements of exactly n statements, from the tables of the smaller sizes.
StmtsOfSize(F, t, n) ==
    IF n = 1 THEN { LeafStmt(F, k) : k \in F.leaves } ELSE Compounds(F, t.B, t.Q, n)

\* Tables by exact size 1..n: S statements, B non-empty blocks, Q non-empty
\* sequences of non-empty blocks.
RECURSIVE Sized(_, _)
Sized(F, n) ==
    IF n = 0 THEN [S |-> <<>>, B |-> <<>>, Q |-> <<>>]
    ELSE Let(Sized(F, n - 1), LAMBDA t :
         Let(Append(t.S, StmtsOfSize(F, t, n)), LAMBDA S2 :
         Let(Append(t.B, BlocksOfSize(S2, t.B, n)), LAMBDA B2 :
             [S |-> S2, B |-> B2, Q |-> Append(t.Q, BlockSeqsOfSize(B2, t.Q, n))])))

\* For each flavour, the tables of the sizes below MaxSize and the statements
\* of size MaxSize.
SmallerTables == [F \in Flavours |-> Sized(F, MaxSize - 1)]
LargestStmts == [F \in Flavours |-> StmtsOfSize(F, SmallerTables[F], MaxSize)]

StmtsSized(F, k) == IF k = MaxSize THEN LargestStmts[F] ELSE SmallerTables[F].S[k]

Scope(F, body) ==
    [scope |-> F.scope, file |-> "m.py", kind |-> "FunctionDef", name |-> "f",
     params |-> F.params, body |-> body]

\* sc is a scope of flavour F whose body has at most MaxSize statements: the
\* empty body, or a first statement of k statements followed by a block (possibly
\* empty) of n - k.
IsInput(sc) ==
    \E F \in Flavours :
        \/ sc = Scope(F, <<>>)
        \/ \E n \in 1..MaxSize : \E k \in 1..n :
              \E st \in StmtsSized(F, k), rest \in SizedOrEmpty(SmallerTables[F].B, n - k) :
                  sc = Scope(F, <<st>> \o rest)

(***************************************************************************)
(* Runs of the Builder, as build_for_file starts them: a Builder is         *)
(* constructed with a title, then build_module or build_function threads    *)
(* the tail through the statements of the scope and closes the graph.       *)
(***************************************************************************)
\* The title build_for_file gives the Builder (lines 363, 370).
BuilderTitle(scope) ==
    IF scope.scope = "module" THEN scope.file \o " (module)"
    ELSE scope.file \o "::" \o scope.name

InitBuild ==
    /\ IsInput(input)
    /\ pc = "constructed"
    /\ g = NewGraph(BuilderTitle(input))    \* Builder.__init__
    /\ pos = 0 /\ last = 0 /\ nlinks = 0
    /\ IdleEsc /\ IdleMain

\* build_module, lines 124: the tail starts at Start.
EnterModule ==
    /\ pc = "constructed" /\ input.scope = "module"
    /\ last' = StartNode
    /\ pc' = "block"
    /\ UNCHANGED <<g, nlinks, input, pos, escVars, mainVars>>

\* build_function, lines 130-140: a fresh graph titled with the signature.
EnterFunction ==
    /\ pc = "constructed" /\ input.scope = "function"
    /\ g' = NewGraph(Signature(input))
    /\ last' = StartNode
    /\ pc' = "block"
    /\ UNCHANGED <<nlinks, input, pos, escVars, mainVars>>

\* One iteration of _build_block over the scope's body.
BuildStep ==
    /\ pc = "block" /\ pos < Len(input.body)
    /\ LET r == BuildStmt(g, input.body[pos + 1], last)
       IN  g' = r.g /\ last' = r.tail
    /\ pos' = pos + 1
    /\ UNCHANGED <<pc, nlinks, input, escVars, mainVars>>

\* The closing link of build_module / build_function (lines 126, 142).
BuildFinish ==
    /\ pc = "block" /\ pos = Len(input.body)
    /\ g' = Link(g, last, EndNode)
    /\ pc' = "built"
    /\ UNCHANGED <<nlinks, input, pos, last, escVars, mainVars>>

NextBuild == EnterModule \/ EnterFunction \/ BuildStep \/ BuildFinish

SpecBuild == InitBuild /\ [][NextBuild]_vars

(***************************************************************************)
(* Runs over the Graph API: a graph is constructed, then any sequence of    *)
(* add and link calls follows.                                              *)
(***************************************************************************)
InitGraph ==
    /\ pc = "api"
    /\ g = NewGraph("t")
    /\ nlinks = 0
    /\ IdleBuild /\ IdleEsc /\ IdleMain

\* g.add(kind, label)
AddNode ==
    /\ pc = "api"
    /\ Len(g.nodes) < MaxNodes
    /\ \E kind \in {"op", "cond"} :
          g' = Add(g, kind, IF kind = "op" THEN "x" ELSE "if c")
    /\ UNCHANGED <<pc, nlinks, buildVars, escVars, mainVars>>

\* g.link(a, b) for any two nodes of the graph
LinkNodes ==
    /\ pc = "api"
    /\ nlinks < MaxLinks
    /\ \E a \in NodeIds(g), b \in NodeIds(g) : g' = Link(g, a, b)
    /\ nlinks' = nlinks + 1
    /\ UNCHANGED <<pc, buildVars, escVars, mainVars>>

NextGraph == AddNode \/ LinkNodes

SpecGraph == InitGraph /\ [][NextGraph]_vars


(***************************************************************************)
(* scan_py_files and main.  A directory is [path, filenames], paths and     *)
(* file names being sequences of characters; a scanned file is              *)
(* [dir, name], standing for Path(dirpath) / f.                             *)
(***************************************************************************)
\* token in text, for sequences of characters
Contains(t, token) ==
    \E i \in 1..(Len(t) - Len(token) + 1) : SubSeq(t, i, i + Len(token) - 1) = token

\* f.endswith(".py")
EndsWithPy(f) == Len(f) >= 3 /\ SubSeq(f, Len(f) - 2, Len(f)) = <<".", "p", "y">>

\* any(token and token in dirpath for token in ignore)
Ignored(path, tokens) == \E k \in 1..Len(tokens) : tokens[k] # <<>> /\ Contains(path, tokens[k])

\* The loop over one directory's file names (lines 349-353), from the files
\* collected so far: [files, returned], returned when the limit stopped the scan.
RECURSIVE ScanNames(_, _, _, _)
ScanNames(dir, names, found, limit) ==
    IF names = <<>> THEN [files |-> found, returned |-> FALSE]
    ELSE IF EndsWithPy(Head(names))
         THEN LET more == Append(found, [dir |-> dir, name |-> Head(names)])
              IN  IF Len(more) >= limit THEN [files |-> more, returned |-> TRUE]
                  ELSE ScanNames(dir, Tail(names), more, limit)
         ELSE ScanNames(dir, Tail(names), found, limit)

\* The walk (lines 335-354).  A directory whose path holds an ignore token is
\* passed over, whether pruned from its parent's dirnames or skipped on arrival.
RECURSIVE ScanDirs(_, _, _, _)
ScanDirs(dirs, tokens, found, limit) ==
    IF dirs = <<>> THEN found
    ELSE IF Ignored(Head(dirs).path, tokens)
         THEN ScanDirs(Tail(dirs), tokens, found, limit)
         ELSE LET r == ScanNames(Head(dirs).path, Head(dirs).filenames, found, limit)
              IN  IF r.returned THEN r.files
                  ELSE ScanDirs(Tail(dirs), tokens, r.files, limit)

\* scan_py_files(root, ignore, max_files)
ScanPyFiles(dirs, tokens, limit) == ScanDirs(dirs, tokens, <<>>, limit)

\* charts_by_file[f] = v
Assign(map, f, v) == [x \in (DOMAIN map) \cup {f} |-> IF x = f THEN v ELSE map[x]]

\* The sections a writer lays out (write_markdown lines 380-387, write_html lines
\* 429-439): for each scanned file, in order, its charts.  Reading
\* charts_by_file[f] for a file that has no entry raises KeyError.
Sections(fs, map) ==
    IF \A k \in 1..Len(fs) : fs[k] \in DOMAIN map
    THEN [raised |-> None,
          doc |-> [k \in 1..Len(fs) |-> [file |-> fs[k], charts |-> map[fs[k]]]]]
    ELSE [raised |-> "KeyError", doc |-> None]

\* What a scanned file that parses holds, as far as build_for_file reads it:
\* its top-level FunctionDef and AsyncFunctionDef nodes, in order (lines 367-368).
FuncDefs == { [name |-> "f", params |-> <<"a">>], [name |-> "g", params |-> <<>>] }
Contents == UNION { [1..n -> FuncDefs] : n \in 0..MaxFuncs }

\* What build_for_file returns for file f with top-level functions funcs: the
\* module chart, then one chart per function, titled as build_function titles
\* its graph.  The module chart, titled f"{path.name} (module)", is marked
\* "module"; of is the path of the file.
ChartsOf(f, funcs) ==
    <<[title |-> "module", of |-> f]>> \o
    [k \in 1..Len(funcs) |-> [title |-> Signature(funcs[k]), of |-> f]]

APy == <<"a", ".", "p", "y">>
BPy == <<"b", ".", "p", "y">>
CTxt == <<"c", ".", "t", "x", "t">>
Listings == { <<>>, <<APy>>, <<CTxt, APy>>, <<APy, BPy>> }

RootPath == <<"r">>
\* The k-th directory below the root: one the ignore token matches, or not.
SubPaths(k) == { <<"r", "/", "s", Digit(k)>>, <<"r", "/", "v", "e", "n", "v", Digit(k)>> }

Walks ==
    UNION { { w \in [1..n -> [path : {RootPath} \cup UNION { SubPaths(k) : k \in 2..n },
                              filenames : Listings]] :
                /\ w[1].path = RootPath
                /\ \A k \in 2..n : w[k].path \in SubPaths(k) } :
            n \in 1..MaxDirs }

InitMain ==
    /\ pc = "scan"
    /\ walk \in Walks
    /\ ignore = << <<"v", "e", "n", "v">> >>
    /\ format \in {"md", "html", "both"}
    /\ max_files \in 0..MaxFilesArg
    /\ files = <<>> /\ idx = 0 /\ charts = <<>> /\ skips = {}
    /\ out = [md |-> None, html |-> None]
    /\ IdleGraph /\ IdleBuild /\ IdleEsc

\* main, lines 512-516: scan; no file found ends the run with status 1.
Scan ==
    /\ pc = "scan"
    /\ files' = ScanPyFiles(walk, ignore, max_files)
    /\ pc' = IF files' = <<>> THEN "exit1" ELSE "build"
    /\ UNCHANGED <<walk, ignore, format, max_files, idx, charts, skips, out,
                   graphVars, buildVars, escVars>>

\* One iteration of the build loop (lines 519-525): the file parses and its
\* charts, one for the module and one per top-level function, are kept, or
\* build_for_file raises and a [skip] line is printed.
BuildFile ==
    /\ pc = "build" /\ idx < Len(files)
    /\ \/ \E funcs \in Contents :
             /\ charts' = Assign(charts, files[idx + 1], ChartsOf(files[idx + 1], funcs))
             /\ skips' = skips
       \/ \E raised \in {"SyntaxError", "Exception"} :
             /\ skips' = skips \cup {files[idx + 1]}
             /\ charts' = charts
    /\ idx' = idx + 1
    /\ UNCHANGED <<pc, walk, ignore, format, max_files, files, out,
                   graphVars, buildVars, escVars>>

\* The writers (lines 527-537): Markdown first, then HTML; an exception raised
\* by a writer ends the run before anything more is written.
WriteOutputs ==
    /\ pc = "build" /\ idx = Len(files)
    /\ LET w == Sections(files, charts)
       IN  IF w.raised # None
           THEN pc' = w.raised /\ out' = out
           ELSE /\ pc' = "done"
                /\ out' = [md |-> IF format \in {"md", "both"} THEN w.doc ELSE None,
                           html |-> IF format \in {"html", "both"} THEN w.doc ELSE None]
    /\ UNCHANGED <<walk, ignore, format, max_files, files, idx, charts, skips,
                   graphVars, buildVars, escVars>>

NextMain == Scan \/ BuildFile \/ WriteOutputs

SpecMain == InitMain /\ [][NextMain]_vars

(***************************************************************************)
(* Claims about the Graph API (checked under SpecGraph).                    *)
(***************************************************************************)
RECURSIVE EdgesBefore(_, _)
EdgesBefore(gr, n) ==
    IF n <= 1 THEN 0 ELSE EdgesBefore(gr, n - 1) + Len(gr.nodes[n - 1].nexts)

EdgeCount(gr) == EdgesBefore(gr, Len(gr.nodes) + 1)

\* The line the serializer is said to emit for the k-th (1-based) successor of
\* node n, when the first two edges of a Condition node carry labels tl and fl.
SaidLine(gr, n, k, tl, fl) ==
    LET src == gr.nodes[n].id
        dst == gr.nodes[gr.nodes[n].nexts[k]].id
        lab == IF gr.nodes[n].kind = "cond" /\ k = 1 THEN tl
               ELSE IF gr.nodes[n].kind = "cond" /\ k = 2 THEN fl
               ELSE ""
    IN  IF lab = "" THEN "    " \o src \o " --> " \o dst
        ELSE "    " \o src \o " -->|" \o lab \o "| " \o dst

FanOutLabelled(gr, tl, fl) ==
    /\ Len(EdgeLines(gr)) = EdgeCount(gr)
    /\ \A n \in NodeIds(gr) : \A k \in 1..Len(gr.nodes[n].nexts) :
          EdgeLines(gr)[EdgesBefore(gr, n) + k] = SaidLine(gr, n, k, tl, fl)

\* C5 as stated: the first successor edge of every Condition node is emitted with
\* the label "true", the second with "false", a third or later one with no label,
\* and every edge out of a Start, Operation or End node with no label.
C5_LowercaseLabels == FanOutLabelled(g, "true", "false")

\* C5, what to_mermaid emits instead: the same lines with the labels "True" and
\* "False" (line 109).
C5_FanOutLabels == FanOutLabelled(g, "True", "False")

\* C5: a Condition node with three successors, whose third edge is unlabeled.
C5_Witness ==
    \E n \in NodeIds(g) : g.nodes[n].kind = "cond" /\ Len(g.nodes[n].nexts) = 3

\* C6: no successor list holds the same target twice, and link(a, b) on a pair
\* that is already linked leaves the graph as it is.
C6_IdempotentLink ==
    /\ \A n \in NodeIds(g) : \A i, j \in 1..Len(g.nodes[n].nexts) :
          i # j => g.nodes[n].nexts[i] # g.nodes[n].nexts[j]
    /\ \A a, b \in NodeIds(g) : b \in Nexts(g, a) => Link(g, a, b) = g

\* Three link calls were made, two of them on an already linked pair.
C6_Witness == nlinks = 3 /\ EdgeCount(g) = 1

\* C7: the node at position i (0-based) of Graph.nodes has id "n<i>"; Start is
\* n0 and End is n1; ids are pairwise distinct; this holds after every add and
\* every link, so link changes no id.
C7_DenseIds ==
    /\ g.nodes[1].kind = "start" /\ g.nodes[1].id = "n0"
    /\ g.nodes[2].kind = "end" /\ g.nodes[2].id = "n1"
    /\ \A i \in NodeIds(g) : g.nodes[i].id = "n" \o IntStr(i - 1)
    /\ \A i, j \in NodeIds(g) : i # j => g.nodes[i].id # g.nodes[j].id

\* A node was added after construction and links were made.
C7_Witness == Len(g.nodes) = 3 /\ g.nodes[3].id = "n2" /\ EdgeCount(g) >= 2


(***************************************************************************)
(* Claims about finished graphs (checked under SpecBuild).                  *)
(***************************************************************************)
\* The nodes reachable from the nodes of S along successor edges that do not
\* leave a node of Stop.
RECURSIVE ReachAvoiding(_, _, _)
ReachAvoiding(gr, S, Stop) ==
    LET T == S \cup UNION { Nexts(gr, n) : n \in S \ Stop }
    IN  IF T = S THEN S ELSE ReachAvoiding(gr, T, Stop)

Reach(gr, n) == ReachAvoiding(gr, {n}, {})

Labelled(gr, label) == { n \in NodeIds(gr) : gr.nodes[n].label = label }

\* The graph the Builder holds when _build_block starts.
EnteredGraph ==
    IF input.scope = "module" THEN NewGraph(BuilderTitle(input))
    ELSE NewGraph(Signature(input))

\* C1: in a finished graph every node other than End has a successor, and End
\* has a predecessor.
C1_StructuralClosure ==
    pc = "built" =>
        /\ \A n \in NodeIds(g) \ {EndNode} : Len(g.nodes[n].nexts) >= 1
        /\ \E n \in NodeIds(g) : EndNode \in Nexts(g, n)

\* A finished graph of a scope with a loop whose body ends in break or continue.
C1_Witness ==
    /\ pc = "built"
    /\ \E n \in Labelled(g, "break") \cup Labelled(g, "continue") :
          \E h \in Nexts(g, n) : g.nodes[h].kind = "cond"

\* C2: in a finished graph End is reachable from Start, and so is every node.
C2_Reachability ==
    pc = "built" =>
        /\ EndNode \in Reach(g, StartNode)
        /\ Reach(g, StartNode) = NodeIds(g)

\* A finished graph with a handler node and a return or raise inside the try.
C2_Witness ==
    /\ pc = "built"
    /\ Labelled(g, "except E") # {}
    /\ \E t \in Labelled(g, "try") : \E n \in Nexts(g, t) : EndNode \in Nexts(g, n)

\* The top-level try statements of the scope that have a finally clause, each
\* with its "try" node, its exits and its "finally" node: the node created
\* next after the exits are known.
TopLevelFinally ==
    { [hdr |-> parts.hdr, exits |-> parts.exits, fnode |-> Len(parts.g.nodes) + 1] :
        parts \in { TryExits(p.g, input.body[p.i], p.tail) :
                      p \in { [i |-> i,
                               g |-> BuildBlock(EnteredGraph, SubSeq(input.body, 1, i - 1),
                                                StartNode).g,
                               tail |-> BuildBlock(EnteredGraph, SubSeq(input.body, 1, i - 1),
                                                   StartNode).tail] :
                              i \in { j \in 1..Len(input.body) :
                                        /\ input.body[j].kind = "Try"
                                        /\ input.body[j].finalbody # <<>> } } } }

\* C3: for a try with a finally clause, every exit tail is linked into the
\* "finally" node, and every path of the finished graph from the "try" node to End
\* passes through that "finally" node.
C3_FinallyConverges ==
    pc = "built" =>
        \A t \in TopLevelFinally :
            /\ g.nodes[t.hdr].label = "try" /\ g.nodes[t.fnode].label = "finally"
            /\ \A e \in Range(t.exits) : t.fnode \in Nexts(g, e)
            /\ EndNode \notin ReachAvoiding(g, {t.hdr}, {t.fnode})

\* C8: in a finished graph Start has exactly one outgoing edge: to the first node
\* created for the first statement of the scope, or to End when the body is
\* empty, and then the graph is exactly Start -> End.
C8_StartOneEdge ==
    pc = "built" =>
        /\ Len(g.nodes[StartNode].nexts) = 1
        /\ input.body = <<>> =>
              /\ g.nodes[StartNode].nexts = <<EndNode>>
              /\ Len(g.nodes) = 2
              /\ g.nodes[EndNode].nexts = <<>>
        /\ input.body # <<>> =>
              /\ g.nodes[StartNode].nexts = <<Len(EnteredGraph.nodes) + 1>>
              /\ LET first == Len(EnteredGraph.nodes) + 1
                     made == BuildStmt(EnteredGraph, input.body[1], StartNode).g.nodes[first]
                 IN  /\ g.nodes[first].kind = made.kind
                     /\ g.nodes[first].label = made.label

\* A finished graph of a scope of two simple statements.
C8_Witness ==
    /\ pc = "built"
    /\ Len(input.body) = 2
    /\ input.body[1].kind = "Assign" /\ input.body[2].kind = "Assign"


(***************************************************************************)
(* Claims about label escaping (checked under SpecEsc).                     *)
(***************************************************************************)
\* The five substitutions undone in reverse order: backtick, angle brackets,
\* line break, double quote, backslash.
UndoEsc(t) ==
    LET u5 == Replace(t, <<BACKSLASH, BACKTICK>>, <<BACKTICK>>)
        u4 == Replace(Replace(u5, <<"&", "g", "t", ";">>, <<">">>),
                      <<"&", "l", "t", ";">>, <<"<">>)
        u3 == Replace(u4, <<BACKSLASH, "n">>, <<LF>>)
        u2 == Replace(u3, <<BACKSLASH, QUOTE>>, <<QUOTE>>)
    IN  Replace(u2, <<BACKSLASH, BACKSLASH>>, <<BACKSLASH>>)

Occurs(t, pat) ==
    \E i \in 1..Len(t) : i + Len(pat) - 1 <= Len(t) /\ SubSeq(t, i, i + Len(pat) - 1) = pat

\* C4 as stated: undoing the substitutions on the escaped label gives back the
\* label, for every label.
C4_RoundTrip == pc = "escaped" => UndoEsc(escaped) = text

\* C4 as amended: the round trip gives back every label that holds no carriage
\* return, no "&lt;" or "&gt;", and no backslash directly followed by the letter n.
C4_RoundTripWhereInvertible ==
    (/\ pc = "escaped"
     /\ ~Occurs(text, <<CR>>)
     /\ ~Occurs(text, <<"&", "l", "t", ";">>)
     /\ ~Occurs(text, <<"&", "g", "t", ";">>)
     /\ ~Occurs(text, <<BACKSLASH, "n">>))
    => UndoEsc(escaped) = text

\* An escaped label with a backslash before a double quote, a line break and an
\* angle bracket, which the round trip gives back.
C4_Witness ==
    /\ pc = "escaped"
    /\ text = <<BACKSLASH, QUOTE, LF, "<">>
    /\ escaped = <<BACKSLASH, BACKSLASH, BACKSLASH, QUOTE, BACKSLASH, "n", "&", "l", "t", ";">>
    /\ UndoEsc(escaped) = text


(***************************************************************************)
(* Claims about the scanner and the driver (checked under SpecMain).        *)
(***************************************************************************)
\* C9: when building the charts of a scanned file fails, a skip is reported, the
\* run goes on with the remaining files, and the writing step completes with the
\* charts of every file that was built.
C9_SkipAndContinue ==
    (pc \notin {"scan", "build", "exit1"} /\ skips # {}) =>
        /\ pc = "done"
        /\ \A f \in DOMAIN charts :
              \E doc \in {out.md, out.html} :
                  doc # None /\ \E k \in 1..Len(doc) : doc[k] = [file |-> f, charts |-> charts[f]]

\* C10: scan_py_files returns at most max_files paths, for every max_files >= 0.
C10_AtMostMaxFiles == pc # "scan" => Len(files) <= max_files


(***************************************************************************)
(* The calls of _build_stmt made while a block is synthesized, nested ones  *)
(* included.  A block context is [g, stmts, tail]: the graph when            *)
(* _build_block is entered, its statements and the tail it starts from.     *)
(***************************************************************************)
Block(gr, stmts, tail) == [g |-> gr, stmts |-> stmts, tail |-> tail]

\* The handler bodies of a try, each with the graph in which it is entered
\* (lines 239-243).
RECURSIVE HandlerBlocks(_, _, _)
HandlerBlocks(gr, hdr, handlers) ==
    IF handlers = <<>> THEN <<>>
    ELSE LET h == Head(handlers)
             g1 == Op(gr, HandlerLabel(h))
             hnode == Added(g1)
             g2 == Link(g1, hdr, hnode)
             r == BuildBlock(g2, h.body, hnode)
         IN  <<Block(g2, h.body, hnode)>> \o HandlerBlocks(r.g, hdr, Tail(handlers))

\* The case bodies of a match, each with the graph in which it is entered
\* (lines 302-311).
RECURSIVE CaseBlocks(_, _, _)
CaseBlocks(gr, head, cases) ==
    IF cases = <<>> THEN <<>>
    ELSE LET c == Head(cases)
             g1 == Op(gr, CaseLabel(c))
             branch == Added(g1)
             g2 == Link(g1, head, branch)
             r == BuildBlock(g2, c.body, branch)
         IN  <<Block(g2, c.body, branch)>> \o CaseBlocks(r.g, head, Tail(cases))

\* The blocks of an if: the true branch, then the else branch if there is one.
IfBlocks(gr, s, tail) ==
    LET g1 == Cond(gr, "if " \o LabelExpr(s.text))
        cond == Added(g1)
        g2 == Link(g1, tail, cond)
        t == BuildBlock(g2, s.body, cond)
    IN  <<Block(g2, s.body, cond)>> \o
        (IF s.orelse # <<>> THEN <<Block(t.g, s.orelse, cond)>> ELSE <<>>)

\* The one block of a loop: its body.  The else clause is never entered.
LoopBlocks(gr, s, tail) ==
    LET g1 == Cond(gr, LoopLabel(s))
        hdr == Added(g1)
    IN  <<Block(Link(g1, tail, hdr), s.body, hdr)>>

WithBlocks(gr, s, tail) ==
    LET g1 == Op(gr, WithLabel(s))
        hdr == Added(g1)
    IN  <<Block(Link(g1, tail, hdr), s.body, hdr)>>

\* The blocks of a try: protected body, handler bodies, else, finally.
TryBlocks(gr, s, tail) ==
    LET g1 == Op(gr, "try")
        hdr == Added(g1)
        g2 == Link(g1, tail, hdr)
        t == BuildBlock(g2, s.body, hdr)
        hs == BuildHandlers(t.g, hdr, s.handlers, <<t.tail>>)
        g3 == Op(hs.g, "else")
        enode == Added(g3)
        es == TryExits(gr, s, tail)
        g5 == Op(es.g, "finally")
        fnode == Added(g5)
    IN  <<Block(g2, s.body, hdr)>> \o HandlerBlocks(t.g, hdr, s.handlers) \o
        (IF s.orelse # <<>>
         THEN <<Block(LinkAll(g3, <<t.tail>>, enode), s.orelse, enode)>> ELSE <<>>) \o
        (IF s.finalbody # <<>>
         THEN <<Block(LinkAll(g5, es.exits, fnode), s.finalbody, fnode)>> ELSE <<>>)

MatchBlocks(gr, s, tail) ==
    LET g1 == Op(gr, "match " \o LabelExpr(s.text))
        head == Added(g1)
    IN  CaseBlocks(Link(g1, tail, head), head, s.cases)

\* The blocks _build_stmt(s, tail) hands to _build_block, in order.
NestedBlocks(gr, s, tail) ==
    CASE s.kind = "If" -> IfBlocks(gr, s, tail)
      [] s.kind \in LoopKinds -> LoopBlocks(gr, s, tail)
      [] s.kind \in WithKinds -> WithBlocks(gr, s, tail)
      [] s.kind = "Try" -> TryBlocks(gr, s, tail)
      [] s.kind = "Match" -> MatchBlocks(gr, s, tail)
      [] OTHER -> <<>>

\* A call of _build_stmt: the statement s, the statements rest that follow it
\* in its block, the graph g0 and tail last it is entered with, the graph g1 it
\* leaves and the tail ret it returns.  The calls are listed in the order in
\* which they are entered.
RECURSIVE CallsOfBlock(_, _, _), CallsOfBlocks(_), CallsOfStmt(_, _, _, _, _)
CallsOfBlock(gr, stmts, tail) ==
    IF stmts = <<>> THEN <<>>
    ELSE Let(BuildStmt(gr, Head(stmts), tail), LAMBDA r :
             CallsOfStmt(gr, Head(stmts), Tail(stmts), tail, r)
               \o CallsOfBlock(r.g, Tail(stmts), r.tail))

CallsOfBlocks(blocks) ==
    IF blocks = <<>> THEN <<>>
    ELSE CallsOfBlock(Head(blocks).g, Head(blocks).stmts, Head(blocks).tail)
           \o CallsOfBlocks(Tail(blocks))

\* The call for s, whose result is r, then the calls nested in it.
CallsOfStmt(gr, s, rest, tail, r) ==
    <<[s |-> s, rest |-> rest, g0 |-> gr, last |-> tail, g1 |-> r.g, ret |-> r.tail]>>
      \o CallsOfBlocks(NestedBlocks(gr, s, tail))

(***************************************************************************)
(* Whole runs of the Builder: build_module or build_function as one step,   *)
(* from the constructed Builder to the finished graph.                      *)
(***************************************************************************)
InitTrace == InitBuild

\* The end of a run whose body left r: the closing link to End (lines 126,
\* 142).
Traced(r) ==
    /\ g' = Link(r.g, r.tail, EndNode)
    /\ last' = r.tail
    /\ pos' = Len(input.body)
    /\ pc' = "built"
    /\ UNCHANGED <<nlinks, input, escVars, mainVars>>

\* build_module (lines 123-127)
TraceModule ==
    /\ pc = "constructed" /\ input.scope = "module"
    /\ Traced(BuildBlock(g, input.body, StartNode))

\* build_function (lines 129-143)
TraceFunction ==
    /\ pc = "constructed" /\ input.scope = "function"
    /\ Traced(BuildBlock(NewGraph(Signature(input)), input.body, StartNode))

NextTrace == TraceModule \/ TraceFunction

SpecTrace == InitTrace /\ [][NextTrace]_vars

(***************************************************************************)
(* Whole runs of the Builder of py2mermaid.py over the same scopes.         *)
(***************************************************************************)
InitV1 == InitBuild

\* py2mermaid.py, build_module (lines 92-96)
ModuleV1 ==
    /\ pc = "constructed" /\ input.scope = "module"
    /\ Traced(BuildBlockV1(g, input.body, StartNode))

\* py2mermaid.py, build_function (lines 98-104)
FunctionV1 ==
    /\ pc = "constructed" /\ input.scope = "function"
    /\ Traced(BuildBlockV1(NewGraph(Signature(input)), input.body, StartNode))

NextV1 == ModuleV1 \/ FunctionV1

SpecV1 == InitV1 /\ [][NextV1]_vars

(***************************************************************************)
(* Claims about the synthesis rules, stated over the calls of _build_stmt. *)
(***************************************************************************)
\* Every call of _build_stmt made for the scope.
Calls == Range(CallsOfBlock(EnteredGraph, input.body, StartNode))

\* The first node a call creates.
FirstNew(c) == Len(c.g0.nodes) + 1

\* gr keeps every node and every successor list of old, possibly extended.
Extends(gr, old) ==
    /\ Len(gr.nodes) >= Len(old.nodes)
    /\ \A n \in NodeIds(old) :
          /\ gr.nodes[n].kind = old.nodes[n].kind
          /\ gr.nodes[n].label = old.nodes[n].label
          /\ gr.nodes[n].id = old.nodes[n].id
          /\ Len(gr.nodes[n].nexts) >= Len(old.nodes[n].nexts)
          /\ SubSeq(gr.nodes[n].nexts, 1, Len(old.nodes[n].nexts)) = old.nodes[n].nexts

Preds(gr, n) == { m \in NodeIds(gr) : n \in Nexts(gr, m) }

\* C11: the graph returned for a function scope is titled "file::name(params)",
\* with the file name the Builder was constructed with; the graph of a module
\* scope keeps the title given at construction, which names the module file.
C11_TitleCarriesFile ==
    pc = "built" =>
        IF input.scope = "function"
        THEN g.title = input.file \o "::" \o Signature(input)
        ELSE g.title = BuilderTitle(input)

\* C12: the node made for a return or raise is linked from the incoming tail,
\* its first successor is End, it is the returned tail, and the first node of a
\* statement that follows in the same block becomes its second successor; all
\* of it is still so in the finished graph.
C12_ReturnRaise ==
    pc = "built" =>
        \A c \in { d \in Calls : d.s.kind \in {"Return", "Raise"} } :
            LET n == FirstNew(c)
            IN  /\ Len(c.g1.nodes) = n
                /\ c.g1.nodes[n].kind = "op"
                /\ n \in Nexts(c.g1, c.last)
                /\ c.g1.nodes[n].nexts = <<EndNode>>
                /\ c.ret = n
                /\ Extends(g, c.g1)
                /\ c.rest # <<>> =>
                      /\ Len(g.nodes) > n
                      /\ SubSeq(g.nodes[n].nexts, 1, 2) = <<EndNode, n + 1>>

\* A finished graph in which a return that opens a branch or a loop body is
\* followed by a statement, and a return is the last statement of its block.
C12_Witness ==
    /\ pc = "built"
    /\ \E c \in Calls : c.s.kind = "Return" /\ c.rest # <<>> /\ c.last # StartNode
                        /\ c.g0.nodes[c.last].kind = "cond"
    /\ \E c \in Calls : c.s.kind = "Return" /\ c.rest = <<>>

\* The tail _build_block returns for a block context.
BlockTail(b) == BuildBlock(b.g, b.stmts, b.tail).tail

\* The first node created in a block context with at least one statement.
BlockEntry(b) == Len(b.g.nodes) + 1

\* What C13 says of one call for an if statement, read in the graph gr.
IfRuleIn(gr, c) ==
    LET cond == FirstNew(c)
        bs == NestedBlocks(c.g0, c.s, c.last)
        merge == c.ret
        second == IF c.s.orelse # <<>> THEN BlockEntry(bs[2]) ELSE merge
        falseSide == IF c.s.orelse # <<>> THEN BlockTail(bs[2]) ELSE cond
    IN  /\ gr.nodes[cond].kind = "cond"
        /\ cond \in Nexts(gr, c.last)
        /\ BlockEntry(bs[1]) = cond + 1
        /\ gr.nodes[cond].nexts = <<BlockEntry(bs[1]), second>>
        /\ gr.nodes[merge].kind = "op" /\ gr.nodes[merge].label = "merge"
        /\ Preds(gr, merge) = {BlockTail(bs[1]), falseSide}

\* C13: for every if statement the Condition node's first successor is the entry
\* node of the true branch and its second the entry node of the else branch, or
\* the "merge" node when there is no else; the predecessors of the merge node are
\* the true-branch tail and the else-branch tail (or the condition node); the
\* merge node is the returned tail.  So it is when the call returns and in the
\* finished graph.
C13_IfRule ==
    pc = "built" =>
        \A c \in { d \in Calls : d.s.kind = "If" } :
            /\ c.ret = Len(c.g1.nodes)
            /\ IfRuleIn(c.g1, c)
            /\ g.nodes[FirstNew(c)].nexts = c.g1.nodes[FirstNew(c)].nexts
            /\ g.nodes[FirstNew(c)].kind = "cond"
            /\ Preds(g, c.ret) = Preds(c.g1, c.ret)

\* A finished graph with an if that has an else branch, whose true branch is an
\* if without else.
C13_Witness ==
    /\ pc = "built"
    /\ \E c \in Calls : /\ c.s.kind = "If" /\ c.s.orelse # <<>>
                        /\ c.s.body[1].kind = "If" /\ c.s.body[1].orelse = <<>>

\* What C14 says of one call for a loop, read in the graph gr.
LoopRuleIn(gr, c) ==
    LET hdr == FirstNew(c)
        body == NestedBlocks(c.g0, c.s, c.last)[1]
        after == c.ret
    IN  /\ gr.nodes[hdr].kind = "cond" /\ gr.nodes[hdr].label = LoopLabel(c.s)
        /\ hdr \in Nexts(gr, c.last)
        /\ body.tail = hdr /\ BlockEntry(body) = hdr + 1
        /\ hdr \in Nexts(gr, BlockTail(body))
        /\ gr.nodes[hdr].nexts = <<BlockEntry(body), after>>
        /\ gr.nodes[after].kind = "op" /\ gr.nodes[after].label = AfterLoopLabel(c.s)

\* C14: for every for, while and async-for statement, whatever its body ends
\* with, the body's tail has a back-edge to the loop header, the header's first
\* successor is the body's entry node and its second the "after-loop" node, and
\* the after-loop node is the returned tail.  So it is when the call returns and
\* in the finished graph.
C14_LoopRule ==
    pc = "built" =>
        \A c \in { d \in Calls : d.s.kind \in LoopKinds } :
            /\ c.ret = Len(c.g1.nodes)
            /\ LoopRuleIn(c.g1, c)
            /\ LoopRuleIn(g, c)

\* A finished graph with a loop whose body ends in return or raise and a loop
\* whose body ends in break or continue.
C14_Witness ==
    /\ pc = "built"
    /\ \E c \in Calls : /\ c.s.kind \in LoopKinds
                        /\ c.s.body[Len(c.s.body)].kind \in {"Return", "Raise"}
    /\ \E c \in Calls : /\ c.s.kind \in LoopKinds
                        /\ c.s.body[Len(c.s.body)].kind \in {"Break", "Continue"}

\* What C15 says of one call for a try with an else clause, read in the graph gr.
TryElseRuleIn(gr, c) ==
    LET bs == NestedBlocks(c.g0, c.s, c.last)
        nh == Len(c.s.handlers)
        tryTail == BlockTail(bs[1])
        elseB == bs[nh + 2]
        enode == elseB.tail
        elseEnd == Len(BuildBlock(elseB.g, elseB.stmts, elseB.tail).g.nodes)
        join == IF c.s.finalbody # <<>> THEN bs[nh + 3].tail ELSE c.ret
    IN  /\ gr.nodes[enode].label = "else"
        /\ enode \in Nexts(gr, tryTail)
        /\ \A n \in enode..elseEnd : n \in Reach(gr, tryTail)
        /\ elseEnd > enode
        /\ gr.nodes[join].label = (IF c.s.finalbody # <<>> THEN "finally" ELSE "after try")
        /\ join \in Nexts(gr, BlockTail(elseB))
        /\ join \notin Nexts(gr, tryTail)
        /\ \A k \in 1..nh : join \in Nexts(gr, BlockTail(bs[k + 1]))

\* C15, for the Builder of py2mermaid_v2.py: when a try has an else clause, the
\* else body is synthesized from the try tail, so its nodes lie downstream of the
\* try tail; the else tail is linked into the "finally" or "after try" node, the
\* try tail has no direct edge into that node, and every handler's tail is
\* linked into it.  So it is when the call returns and in the finished graph.
C15_TryElseRule ==
    pc = "built" =>
        \A c \in { d \in Calls : d.s.kind = "Try" /\ d.s.orelse # <<>> } :
            TryElseRuleIn(c.g1, c) /\ TryElseRuleIn(g, c)

\* A finished graph with a try that has a handler and an else clause.
C15_Witness ==
    /\ pc = "built"
    /\ \E c \in Calls : c.s.kind = "Try" /\ c.s.orelse # <<>> /\ c.s.handlers # <<>>
    /\ Labelled(g, "else") # {}

\* The graph py2mermaid.py finishes for a body, in the graph the scope is
\* entered with.
FinishedV1(body) ==
    LET r == BuildBlockV1(EnteredGraph, body, StartNode)
    IN  Link(r.g, r.tail, EndNode)

\* C15, for the Builder of py2mermaid.py: when the first statement of a scope is
\* a try with an else clause, the else body's statements appear in the finished
\* graph (it has more nodes than the graph of the same scope without the else
\* clause) and try_tail has no direct edge into the "finally" or "after try"
\* node of that try.
C15_TryElseRuleV1 ==
    (/\ pc = "built" /\ input.body # <<>>
     /\ input.body[1].kind = "Try" /\ input.body[1].orelse # <<>>) =>
        LET s == input.body[1]
            es == TryExitsV1(EnteredGraph, s, StartNode)
            tryTail == es.exits[1]
            join == Len(es.g.nodes) + 1
            bare == <<[s EXCEPT !.orelse = <<>>]>> \o Tail(input.body)
        IN  /\ g.nodes[join].label \in {"finally", "after try"}
            /\ Len(g.nodes) > Len(FinishedV1(bare).nodes)
            /\ join \notin Nexts(g, tryTail)

\* C16: a call for a break or continue adds exactly one Operation node and
\* exactly one edge, from the incoming tail to the new node, changes nothing
\* else, and returns the new node, whose successor list is empty.
C16_JumpFrame ==
    pc = "built" =>
        \A c \in { d \in Calls : d.s.kind \in {"Break", "Continue"} } :
            LET n == FirstNew(c)
            IN  /\ Len(c.g1.nodes) = Len(c.g0.nodes) + 1
                /\ c.g1.title = c.g0.title
                /\ c.g1.nodes[n] =
                      [kind |-> "op",
                       label |-> IF c.s.kind = "Break" THEN "break" ELSE "continue",
                       id |-> "n" \o IntStr(n - 1), nexts |-> <<>>]
                /\ c.g1.nodes[c.last] =
                      [c.g0.nodes[c.last] EXCEPT !.nexts = Append(@, n)]
                /\ \A m \in NodeIds(c.g0) \ {c.last} : c.g1.nodes[m] = c.g0.nodes[m]
                /\ EdgeCount(c.g1) = EdgeCount(c.g0) + 1
                /\ c.ret = n

\* A finished graph with a break or continue that opens a loop body, and one that
\* follows a node which already had an outgoing edge.
C16_Witness ==
    /\ pc = "built"
    /\ \E c \in Calls : /\ c.s.kind \in {"Break", "Continue"}
                        /\ c.g0.nodes[c.last].kind = "cond"
    /\ \E c \in Calls : /\ c.s.kind \in {"Break", "Continue"}
                        /\ c.g0.nodes[c.last].nexts # <<>>

\* C17: in every finished graph every Condition node has exactly two successors,
\* distinct from each other, so to_mermaid writes exactly two edges out of it,
\* the first with the true label and the second with the false label, and none
\* without a label.
C17_CondTwoSuccessors ==
    pc = "built" =>
        \A n \in NodeIds(g) : g.nodes[n].kind = "cond" =>
            /\ Len(g.nodes[n].nexts) = 2
            /\ g.nodes[n].nexts[1] # g.nodes[n].nexts[2]
            /\ EdgeLabel("cond", 0) # "" /\ EdgeLabel("cond", 1) # ""
            /\ EdgeLabel("cond", 0) # EdgeLabel("cond", 1)
            /\ NodeEdgeLines(g, n) =
                  << "    " \o g.nodes[n].id \o " -->|" \o EdgeLabel("cond", 0) \o "| "
                        \o g.nodes[g.nodes[n].nexts[1]].id,
                     "    " \o g.nodes[n].id \o " -->|" \o EdgeLabel("cond", 1) \o "| "
                        \o g.nodes[g.nodes[n].nexts[2]].id >>

\* A finished graph with the Condition node of an if without else and a loop
\* header that a break or continue leads back to.
C17_Witness ==
    /\ pc = "built"
    /\ \E c \in Calls : c.s.kind = "If" /\ c.s.orelse = <<>>
    /\ \E c \in Calls : /\ c.s.kind \in LoopKinds
                        /\ c.s.body[Len(c.s.body)].kind \in {"Break", "Continue"}

\* C18: in every finished graph End is reachable from every node along
\* successor edges.
C18_NoDeadEnd ==
    pc = "built" => \A n \in NodeIds(g) : EndNode \in Reach(g, n)

\* A finished graph with a match of two cases inside a loop body.
C18_Witness ==
    /\ pc = "built"
    /\ \E c \in Calls : /\ c.s.kind \in LoopKinds
                        /\ c.s.body[1].kind = "Match" /\ Len(c.s.body[1].cases) = 2
    /\ Cardinality(Labelled(g, "case p")) = 2

\* The statement tree with the else clause of every loop removed.
RECURSIVE StripLoopElse(_), StripLoopElseAll(_)
StripLoopElse(s) ==
    CASE s.kind \in LoopKinds -> [s EXCEPT !.body = StripLoopElseAll(@), !.orelse = <<>>]
      [] s.kind = "If" ->
            [s EXCEPT !.body = StripLoopElseAll(@), !.orelse = StripLoopElseAll(@)]
      [] s.kind \in WithKinds -> [s EXCEPT !.body = StripLoopElseAll(@)]
      [] s.kind = "Try" ->
            [s EXCEPT !.body = StripLoopElseAll(@),
                      !.handlers = [k \in 1..Len(@) |->
                                       [@[k] EXCEPT !.body = StripLoopElseAll(@)]],
                      !.orelse = StripLoopElseAll(@),
                      !.finalbody = StripLoopElseAll(@)]
      [] s.kind = "Match" ->
            [s EXCEPT !.cases = [k \in 1..Len(@) |->
                                    [@[k] EXCEPT !.body = StripLoopElseAll(@)]]]
      [] OTHER -> s

StripLoopElseAll(stmts) == [k \in 1..Len(stmts) |-> StripLoopElse(stmts[k])]

\* The finished graph of a body built in the graph the scope is entered with.
Finished(body) ==
    LET r == BuildBlock(EnteredGraph, body, StartNode)
    IN  Link(r.g, r.tail, EndNode)

\* C19: the else clause of a loop produces no node and no edge: a call for a loop
\* leaves the graph and returns the tail it would without the else clause, and
\* the finished graph is the one built from the scope with every loop's else
\* clause removed.
C19_LoopElseIgnored ==
    pc = "built" =>
        /\ \A c \in { d \in Calls : d.s.kind \in LoopKinds /\ d.s.orelse # <<>> } :
              BuildStmt(c.g0, [c.s EXCEPT !.orelse = <<>>], c.last) = Result(c.g1, c.ret)
        /\ g = Finished(StripLoopElseAll(input.body))

\* A finished graph of a scope with a loop that has an else clause.
C19_Witness ==
    /\ pc = "built"
    /\ \E c \in Calls : c.s.kind \in LoopKinds /\ c.s.orelse # <<>>
    /\ input.body # StripLoopElseAll(input.body)

\* C20: in a finished graph End has no outgoing edge and Start has no incoming
\* edge, and no call of _build_stmt and no block returns End as its tail.
C20_EndSinkStartSource ==
    /\ pc \in {"block", "built"} => last # EndNode
    /\ pc = "built" =>
          /\ g.nodes[EndNode].nexts = <<>>
          /\ Preds(g, StartNode) = {}
          /\ \A c \in Calls :
                /\ c.ret # EndNode
                /\ c.g1.nodes[EndNode].nexts = <<>>
                /\ \A k \in 1..Len(NestedBlocks(c.g0, c.s, c.last)) :
                      BlockTail(NestedBlocks(c.g0, c.s, c.last)[k]) # EndNode

\* A finished graph in which End has two predecessors, one of them a return or
\* raise that is followed by another statement.
C20_Witness ==
    /\ pc = "built"
    /\ Cardinality(Preds(g, EndNode)) >= 2
    /\ \E c \in Calls : c.s.kind \in {"Return", "Raise"} /\ c.rest # <<>>


\* The nodes a call creates.
NewNodes(c) == FirstNew(c)..Len(c.g1.nodes)

\* C21: a call _build_stmt(s, last) keeps every existing node and every existing
\* successor list in place and in order, and creates at least one node.  Of the
\* nodes that existed before the call only last gains an outgoing edge, exactly
\* one, to the first node the call creates; only End gains incoming edges; and
\* every other new edge leaves a node created during the call.
C21_StmtFrame ==
    pc = "built" =>
        \A c \in Calls :
            /\ c.g1.title = c.g0.title
            /\ c.last \in NodeIds(c.g0)
            /\ NewNodes(c) # {}
            /\ SubSeq(c.g1.nodes, 1, Len(c.g0.nodes)) =
                  [c.g0.nodes EXCEPT ![c.last].nexts = Append(@, FirstNew(c))]
            /\ \A m \in NewNodes(c) :
                  Nexts(c.g1, m) \subseteq NewNodes(c) \cup {EndNode}

\* A finished graph with a call for a compound statement that is entered at a
\* node which already has a successor, creates several nodes with edges between
\* them and adds an edge into End, which already had a predecessor.
C21_Witness ==
    /\ pc = "built"
    /\ \E c \in Calls :
          /\ c.s.kind \in {"If", "Try", "Match", "With", "AsyncWith"} \cup LoopKinds
          /\ c.g0.nodes[c.last].nexts # <<>>
          /\ Cardinality(NewNodes(c)) >= 3
          /\ Preds(c.g0, EndNode) # {}
          /\ \E m \in NewNodes(c) : EndNode \in Nexts(c.g1, m)
          /\ \E m \in NewNodes(c) : Nexts(c.g1, m) \cap NewNodes(c) # {}
============================================================================
